---- MODULE Spec2Model ----
(***************************************************************************)
(* Rule callback engine of sqreen/rules.py: a RuleCallback whose lifecycle *)
(* methods (pre, post, failing) are wrapped at construction by             *)
(* debug_log_wrapper, check_condition_wrapper, call_count_wrapper and      *)
(* perf_monitoring_wrapper, and the invocations of the effective handlers  *)
(* by one thread (Spec) or by several threads (SpecConc).                  *)
(* SpecBase calls the BaseCallback operations directly, SpecWhitelist      *)
(* invokes the handlers for whitelisted requests, SpecHook registers       *)
(* callbacks on a hookpoint and fires it, and SpecLambda feeds events to   *)
(* the Lambda adapter's RecordRequestContextAWSLambda.pre.  SpecBuild      *)
(* builds callbacks with from_rule_dict and invokes a reactive callback's  *)
(* handler, SpecLifetime interleaves invocations with the direct calls,    *)
(* SpecFlush invokes the adapter's ExecuteRunner, and SpecSdk calls        *)
(* sdk/events.py track and track_action.                                   *)
(***************************************************************************)
EXTENDS Integers, Sequences, FiniteSets, Bags, TLC

VARIABLES
    call_count_interval, \* RuleCallback.call_count_interval (after `or 0`)
    conditions,          \* RuleCallback.conditions: lifecycle -> condition tree
    debug_enabled,       \* LOGGER.isEnabledFor(logging.DEBUG) at construction
    runner,              \* BaseCallback.runner
    handlers,            \* the attributes pre/post/failing: the wrapper chain
                         \* of each lifecycle, outermost wrapper first
    call_counts,         \* RuleCallback.call_counts
    observations,        \* bag of the "sqreen_call_counts" payloads handed to
                         \* storage.observe since construction
    ncalls,              \* number of invocations started, per lifecycle
    inv,                 \* per thread: the invocation in progress (its frame)
    supports_budget,     \* the class constant SUPPORTS_BUDGET of the callback
    budget,              \* runner.budget
    whitelist_match,     \* storage.get_whitelist_match() of the request
    last,                \* the last BaseCallback operation called directly:
                         \* its name, its inputs and what it gave back
    registry,            \* the callbacks registered on the hookpoint, in
                         \* registration order
    fired,               \* per firing of the hookpoint: the callbacks in
                         \* the order their phase was invoked
    UNSUPPORTED_LAMBDA_EVENTS,  \* the module-level set of aws_lambda.py
    request,             \* the request the storage holds
    pre_calls,           \* the calls of RecordRequestContextAWSLambda.pre so
                         \* far: the event, the outcome, whether it stored
    rule_dict,           \* the rule description handed to from_rule_dict
    built,               \* what from_rule_dict gave back
    handler_calls,       \* the invocations of a reactive callback's handler
    exec,                \* ExecuteRunner: the invocation in progress
    flushes,             \* ExecuteRunner: the invocations that ended
    sdk_calls,           \* the calls of sdk.events.track and track_action
    sdk_events           \* the "sdk" events handed to storage.observe

config == <<call_count_interval, conditions, debug_enabled, runner, handlers,
            supports_budget, budget>>
hook == <<registry, fired>>
lambda == <<UNSUPPORTED_LAMBDA_EVENTS, request, pre_calls>>
build == <<rule_dict, built, handler_calls>>
flush == <<exec, flushes>>
sdk == <<sdk_calls, sdk_events>>
rest == <<build, flush, sdk>>
others == <<whitelist_match, last, hook, lambda, rest>>
pipeline == <<call_counts, observations, ncalls, inv>>
vars == <<call_count_interval, conditions, debug_enabled, runner, handlers,
          call_counts, observations, ncalls, inv,
          supports_budget, budget, whitelist_match, last,
          registry, fired, UNSUPPORTED_LAMBDA_EVENTS, request, pre_calls,
          rule_dict, built, handler_calls,
          exec, flushes, sdk_calls, sdk_events>>

----------------------------------------------------------------------------
(* Bounds of the model *)

\* largest call_count_interval a rule declares
MaxInterval == 3
\* invocations started in a sequential run
MaxCalls == 6
\* invocations started in a concurrent run
MaxConcCalls == 3
\* host threads invoking the callback
NThreads == 2
\* largest request budget and largest per-call override
MaxBudget == 2
\* largest time a request has already spent (storage.request_sq_time)
MaxElapsed == 1
\* largest explicit priority a rule is given, besides the default one
MaxPriority == 1
\* callbacks registered one by one on the hookpoint
MaxCallbacks == 3
\* firings of the hookpoint
MaxFirings == 2
\* events handed to the Lambda request-context callback
MaxEvents == 3
\* invocations of a reactive callback's handler
MaxHandlerCalls == 2
\* invocations of ExecuteRunner's post and failing
MaxFlushes == 2
\* calls of the SDK's track and track_action
MaxSdkCalls == 2
\* invocations interleaved with direct calls of the BaseCallback operations
MaxLifetimeCalls == 2

Threads == 1..NThreads
SeqThreads == {1}

None == "None"

----------------------------------------------------------------------------
(* The callback's identity and its lifecycle methods *)

rule_name == "rule"
rulespack_id == "pack"

\* RuleCallback.lifecycle_methods, for a subclass defining the three methods
lifecycle_methods == <<"pre", "post", "failing">>
Lifecycles == {lifecycle_methods[i] : i \in DOMAIN lifecycle_methods}

DEBUG == "debug_log_wrapper"
GATE == "check_condition_wrapper"
COUNT == "call_count_wrapper"
PERF == "perf_monitoring_wrapper"
INNER == "lifecycle_method"

\* the values call_count_interval is constructed with: None (given FALSE) or
\* an integer
IntervalInputs == [given : {FALSE}, value : {0}]
                  \cup [given : {TRUE}, value : -1..MaxInterval]

\* `call_count_interval or 0`
IntervalOrZero(i) == IF ~i.given \/ i.value = 0 THEN 0 ELSE i.value

\* condition trees: no entry (None), the empty tree {}, a non-empty tree
ConditionMaps ==
    { [l \in Lifecycles |-> None],
      [l \in Lifecycles |->
          CASE l = "pre" -> "empty" [] l = "post" -> "tree" [] OTHER -> None],
      [l \in Lifecycles |-> IF l = "post" THEN None ELSE "tree"] }

\* condition_evaluator.is_condition_empty
is_condition_empty(c) == c \in {None, "empty"}

\* the runner: absent, or its two performance flags
Runners ==
    [present : {FALSE}, performance_metrics : {FALSE}, enabled : {FALSE}]
    \cup [present : {TRUE}, performance_metrics : BOOLEAN, enabled : BOOLEAN]

performance_monitoring_enabled(r) ==
    IF r.present THEN r.performance_metrics /\ r.enabled ELSE FALSE

\* wrapping a lifecycle method (setattr(self, lifecycle, wrapped)): the new
\* wrapper becomes the outermost layer of that lifecycle's handler
Wrap(h, applies, wrapper) ==
    [l \in DOMAIN h |-> IF l \in applies THEN <<wrapper>> \o h[l] ELSE h[l]]

apply_debug_log(h, debug) ==
    IF ~debug THEN h ELSE Wrap(h, DOMAIN h, DEBUG)

\* variant of apply_conditions: `conditions is not None` instead of
\* is_condition_empty, which gates a phase declared with an empty tree
apply_conditions_not_none(h, conds) ==
    Wrap(h, {l \in Lifecycles : conds[l] # None}, GATE)

apply_conditions(h, conds) ==
    Wrap(h, {l \in Lifecycles : ~is_condition_empty(conds[l])}, GATE)

apply_call_count(h, interval) ==
    IF interval = 0 THEN h ELSE Wrap(h, DOMAIN h, COUNT)

apply_perf_monitoring(h, r) ==
    IF ~performance_monitoring_enabled(r) THEN h ELSE Wrap(h, DOMAIN h, PERF)

\* variant of ComposeHandlers: _apply_call_count called before
\* _apply_conditions, which leaves the sampler inside the condition gate
ComposeHandlersCountBeforeConditions(conds, interval, debug, r) ==
    apply_perf_monitoring(
        apply_conditions(
            apply_call_count(
                apply_debug_log([l \in Lifecycles |-> <<INNER>>], debug),
                interval),
            conds),
        r)

\* variant of ComposeHandlers: _apply_perf_monitoring called before
\* _apply_call_count, which leaves the sampler outside the trace scope
ComposeHandlersPerfBeforeCount(conds, interval, debug, r) ==
    apply_call_count(
        apply_perf_monitoring(
            apply_conditions(
                apply_debug_log([l \in Lifecycles |-> <<INNER>>], debug),
                conds),
            r),
        interval)

\* RuleCallback.__init__: the four _apply_* calls, in the order of the code
ComposeHandlers(conds, interval, debug, r) ==
    apply_perf_monitoring(
        apply_call_count(
            apply_conditions(
                apply_debug_log([l \in Lifecycles |-> <<INNER>>], debug),
                conds),
            interval),
        r)

----------------------------------------------------------------------------
(* What a lifecycle method is invoked with, and what it gives back *)

\* the keyword options of the runner: result for post, exc_info for failing
RunnerOptions(lifecycle) ==
    CASE lifecycle = "post" -> [result |-> "result", exc_info |-> None]
      [] lifecycle = "failing" -> [result |-> None, exc_info |-> "exc_info"]
      [] OTHER -> [result |-> None, exc_info |-> None]

\* (inst, args, kwargs, **options) as the caller supplies them
CallerCall(lifecycle) ==
    [inst |-> "inst", args |-> "args", kwargs |-> "kwargs",
     options |-> RunnerOptions(lifecycle)]

\* storage.get_current_args(args): the arguments the storage holds for the
\* current call when it holds some, the raw ones otherwise
CurrentArgs == {None, "stored_args"}
get_current_args(stored, args) == IF stored # None THEN stored ELSE args

Return(v) == [kind |-> "return", value |-> v]
Raise(e) == [kind |-> "raise", value |-> e]
NoOutcome == [kind |-> "none", value |-> None]

\* the condition evaluator's results
CondResults == {"true", "false", "null"}

\* what the lifecycle method's own logic does on one invocation
InnerBehaviours == {"return", "attack", "observe", "raise"}

\* the observation key of call_count_wrapper: "%s/%s/%s"
observation_key(lifecycle) == <<rulespack_id, rule_name, lifecycle>>

\* the metric name of perf_monitoring_wrapper: "sq.{}.{}"
metric_name(lifecycle) == <<"sq", rule_name, lifecycle>>

\* BaseCallback.record_attack: storage.observe("attacks", payload, sections)
AttackEvent ==
    [category |-> "attacks",
     payload |-> <<rulespack_id, rule_name>>]

\* BaseCallback.record_observation:
\* storage.observe("observations", (metric_name, at, key, value))
ObservationEvent(metric, key, value) ==
    [category |-> "observations", payload |-> <<metric, key, value>>]

\* the frame of a thread that is not inside a handler
IdleFrame ==
    [pc |-> "idle", lifecycle |-> "pre", depth |-> 0,
     call |-> CallerCall("pre"),
     passing |-> CallerCall("pre"),
     current_count |-> 0, tmp |-> 0,
     condition_result |-> None, eval_args |-> None, eval_rv |-> None,
     inner_runs |-> 0, inner_call |-> CallerCall("pre"),
     inner_outcome |-> NoOutcome,
     trail |-> <<>>, observed |-> <<>>, scopes |-> <<>>, open |-> <<>>,
     returns |-> <<>>, outcome |-> NoOutcome]

\* the frame of a thread entering the effective handler of a lifecycle
NewFrame(lifecycle) ==
    [IdleFrame EXCEPT !.pc = "layer", !.lifecycle = lifecycle, !.depth = 1,
                      !.call = CallerCall(lifecycle),
                      !.passing = CallerCall(lifecycle),
                      !.inner_call = CallerCall(lifecycle)]

\* variant of Layers: a condition gate that takes itself off the lifecycle
\* after the first invocation
LayersGateOnce(f) ==
    LET NotGate(w) == w # GATE
    IN IF ncalls[f.lifecycle] > 1
       THEN SelectSeq(handlers[f.lifecycle], NotGate)
       ELSE handlers[f.lifecycle]

\* getattr(callback, lifecycle): the handler composed at construction
Layers(f) == handlers[f.lifecycle]
Layer(f) == Layers(f)[f.depth]
AtLayer(f, wrapper) == f.pc = "layer" /\ Layer(f) = wrapper

\* `wrapped(...)`: control enters the next layer of the chain with `call`
Delegate(f, wrapper, call) ==
    [f EXCEPT !.pc = "layer", !.depth = @ + 1, !.passing = call,
              !.trail = Append(@, [layer |-> wrapper, call |-> f.passing])]

----------------------------------------------------------------------------
(* The wrappers *)

\* variants of SkipsPhase: `if condition_result is False`, and
\* `if condition_result is None`
SkipsPhaseOnlyFalse(condition_result) == condition_result = "false"
SkipsPhaseOnlyNone(condition_result) == condition_result = "null"

\* check_condition_wrapper: `if condition_result in (False, None)`
SkipsPhase(condition_result) == condition_result \in {"false", "null"}

\* check_condition_wrapper: `rv = options.get("result" if lifecycle == "post"
\* else "exc_info")`
ConditionRv(lifecycle, options) ==
    IF lifecycle = "post" THEN options.result ELSE options.exc_info

\* variant of check_condition_wrapped_call: the wrapped handler is called
\* with the arguments computed for the evaluator
check_condition_wrapped_eval_args(call, eval_args) ==
    [call EXCEPT !.args = eval_args]

\* check_condition_wrapper: `wrapped(inst, args, kwargs, **options)`, the
\* call handed on when the condition holds (eval_args went to the evaluator)
check_condition_wrapped_call(call, eval_args) == call

\* variants of ReachesInterval: the comparison made one call late
\* (`current_count == interval`) and one call early
\* variant of CounterKey: one counter for the three lifecycles
CounterKeyShared(lifecycle) == "pre"

\* call_count_wrapper: `callback.call_counts[lifecycle]`, the lifecycle the
\* wrapper was built for
CounterKey(lifecycle) == lifecycle

ReachesIntervalLate(current_count, interval) == current_count = interval
ReachesIntervalEarly(current_count, interval) == current_count + 2 = interval

\* call_count_wrapper: `if current_count + 1 == callback.call_count_interval`
ReachesInterval(current_count, interval) == current_count + 1 = interval

\* variant of call_count_wrapped_call: `wrapped(*args)`, the keyword
\* options are not handed on
call_count_wrapped_call_no_kwargs(call) ==
    [call EXCEPT !.options = [result |-> None, exc_info |-> None]]

\* call_count_wrapper: `wrapped(*args, **kwargs)`
call_count_wrapped_call(call) == call

\* variant of WrapperReturn: the performance monitor catches what the
\* wrapped handler raises and returns None
WrapperReturnSwallows(wrapper, outcome) ==
    IF wrapper = PERF /\ outcome.kind = "raise" THEN Return(None) ELSE outcome

\* every wrapper ends in `return wrapped(...)`: what the wrapped handler
\* returns or raises is what the wrapper returns or raises
WrapperReturn(wrapper, outcome) == outcome

\* variant of TraceExit: the scope is closed after the wrapped handler
\* returned, with no try/finally around the call
TraceExitOnReturn(open, outcome) ==
    IF outcome.kind = "return" THEN SubSeq(open, 1, Len(open) - 1) ELSE open

\* perf_monitoring_wrapper: leaving `with storage.trace(name)` closes the
\* innermost open scope, whether the body returned or raised
TraceExit(open, outcome) == SubSeq(open, 1, Len(open) - 1)

\* control returns from layer i + 1 (or from the layer that produced the
\* outcome) up to the caller, through layers i, i - 1, ..., 1
RECURSIVE Unwind(_, _, _)
Unwind(layers, i, st) ==
    IF i = 0 THEN st
    ELSE LET out == WrapperReturn(layers[i], st.outcome)
             open == IF layers[i] = PERF
                     THEN TraceExit(st.open, st.outcome) ELSE st.open
         IN Unwind(layers, i - 1,
                   [outcome |-> out, open |-> open,
                    returns |-> <<out>> \o st.returns])

\* the outcome of the lifecycle method's own logic
InnerOutcome(behaviour) ==
    IF behaviour = "raise" THEN Raise("error") ELSE Return("decision")

\* the events the lifecycle method's own logic hands to storage.observe
InnerEvents(behaviour, lifecycle) ==
    CASE behaviour = "attack" -> <<AttackEvent>>
      [] behaviour = "observe" ->
            <<ObservationEvent("http_code", lifecycle, 1)>>
      [] OTHER -> <<>>

----------------------------------------------------------------------------
(* BaseCallback: properties, get_remaining_budget, record_exception *)

\* BaseCallback.SUPPORTS_BUDGET, which no callback class of the repository
\* overrides
SUPPORTS_BUDGET == FALSE

\* an optional number: None, or a value
Null == [given |-> FALSE, value |-> 0]
Num(n) == [given |-> TRUE, value |-> n]

\* runner.budget
Budgets == {Null} \cup {Num(n) : n \in 0..MaxBudget}
\* storage.request_sq_time
ElapsedTimes == {Null} \cup {Num(n) : n \in 0..MaxElapsed}

\* BaseCallback.collaborative
collaborative(supports) == supports

\* what storage.get_whitelist_match() returns: None, or the matched entry
WhitelistMatches == {None, "whitelist_entry"}

\* BaseCallback.whitelisted: `self.storage.get_whitelist_match() or False`
whitelisted(match) == IF match # None THEN TRUE ELSE FALSE

OVERRIDE == "__sqreen_override_budget"
OptionKeys == {OVERRIDE, "result"}

\* the option maps get_remaining_budget is called with: the override key
\* absent, None or a number; another option absent or present
OptionMaps ==
    {m \in UNION {[S -> Budgets] : S \in SUBSET OptionKeys} :
        "result" \in DOMAIN m => m["result"] = Num(0)}

\* callback_kwargs: None (present FALSE), or an option map
KwargsInputs ==
    {[present |-> FALSE, map |-> << >>]}
    \cup {[present |-> TRUE, map |-> m] : m \in OptionMaps}

\* variant of DictPop: dict.get(key, default), the key stays in the map
DictGet(d, key, default) ==
    [value |-> IF key \in DOMAIN d THEN d[key] ELSE default, dict |-> d]

\* dict.pop(key, default)
DictPop(d, key, default) ==
    [value |-> IF key \in DOMAIN d THEN d[key] ELSE default,
     dict |-> [k \in DOMAIN d \ {key} |-> d[k]]]

\* variant of BudgetConfigured: `if budget:`
BudgetTruthy(b) == b.given /\ b.value # 0

\* get_remaining_budget: `if budget is not None`
BudgetConfigured(b) == b.given

\* `self.storage.request_sq_time or 0`
SqTimeOrZero(sq_time) == IF sq_time.given THEN sq_time.value ELSE 0

\* BaseCallback.get_remaining_budget: the value returned and the option
\* map as the call leaves it
get_remaining_budget(kwargs, r, b, sq_time) ==
    LET popped == IF kwargs.present
                  THEN DictPop(kwargs.map, OVERRIDE, Null)
                  ELSE [value |-> Null, dict |-> kwargs.map]
        after == [present |-> kwargs.present, map |-> popped.dict]
    IN IF kwargs.present /\ popped.value.given
       THEN [result |-> popped.value, kwargs |-> after]
       ELSE IF r.present /\ performance_monitoring_enabled(r)
                         /\ BudgetConfigured(b)
            THEN [result |-> Num(b.value - SqTimeOrZero(sq_time)),
                  kwargs |-> after]
            ELSE [result |-> Null, kwargs |-> after]

\* what record_exception is called with: whether the exception has an
\* exception_infos method ("absent"), and whether that method, the two
\* traceback formatters and storage.observe work or raise
ExceptionInputs ==
    [exception_infos : {"absent", "returns", "raises"},
     raw_traceback_formatter : {"returns", "raises"},
     stack : BOOLEAN,
     traceback_formatter : {"returns", "raises"},
     observe : {"returns", "raises"}]

\* BaseCallback.record_exception: only the call of exc.exception_infos()
\* is inside a try/except
record_exception(x) ==
    LET infos == IF x.exception_infos = "returns"
                 THEN "exception_infos" ELSE "empty"
    IN CASE x.raw_traceback_formatter = "raises" ->
              [outcome |-> Raise("raw_traceback_formatter"), observed |-> <<>>]
         [] x.stack /\ x.traceback_formatter = "raises" ->
              [outcome |-> Raise("traceback_formatter"), observed |-> <<>>]
         [] x.observe = "raises" ->
              [outcome |-> Raise("observe"), observed |-> <<>>]
         [] OTHER ->
              [outcome |-> Return(None),
               observed |-> <<[category |-> "sqreen_exceptions",
                               payload |-> <<rulespack_id, rule_name, infos,
                                             x.stack>>]>>]

NoCall == [op |-> "none", input |-> << >>, result |-> << >>]

----------------------------------------------------------------------------
(* Priorities, and the dispatch of a hookpoint's callbacks *)

\* the priority of a callback built without one
DEFAULT_PRIORITY == 100

\* the "priority" of a rule description: absent, or a number
PriorityInputs ==
    {Null} \cup {Num(p) : p \in 0..MaxPriority} \cup {Num(DEFAULT_PRIORITY)}

\* variant of InitPriority: `priority or 100`
InitPriorityOrDefault(priority) ==
    IF priority.given /\ priority.value # 0
    THEN priority.value ELSE DEFAULT_PRIORITY

\* BaseCallback.__init__: `priority if priority is not None else 100`
InitPriority(priority) ==
    IF priority.given THEN priority.value ELSE DEFAULT_PRIORITY

\* from_rule_dict: the callback built from a rule description, as the
\* hookpoint keeps it
from_rule_dict(name, priority) ==
    [name |-> name, given |-> priority, priority |-> InitPriority(priority)]

\* AWSLambdaFrameworkAdapter.instrumentation_callbacks: the rule
\* descriptions in list order, all on the hookpoint handle_event_request
LambdaRules ==
    << [name |-> "ecosystem_aws_lambda_request_context", priority |-> 20],
       [name |-> "ecosystem_aws_lambda_provide_data", priority |-> 80],
       [name |-> "ecosystem_aws_lambda_record_response", priority |-> 90],
       [name |-> "ecosystem_aws_lambda_error_page", priority |-> 100],
       [name |-> "ecosystem_aws_lambda_legacy_http_code", priority |-> 60],
       [name |-> "ecosystem_aws_lambda_ba_normal_http_counter",
        priority |-> 60],
       [name |-> "ecosystem_aws_lambda_ba_error_http_counter",
        priority |-> 60],
       [name |-> "ecosystem_aws_lambda_execute_runner", priority |-> 10] >>

instrumentation_callbacks ==
    [i \in DOMAIN LambdaRules |->
        from_rule_dict(LambdaRules[i].name, Num(LambdaRules[i].priority))]

\* names of the rules registered one by one
RuleNames == <<"rule_a", "rule_b", "rule_c", "rule_d">>

\* a callback takes its place in the hookpoint's list after every callback
\* of lower or equal priority
InsertByPriority(sorted, cb) ==
    LET n == Cardinality({j \in DOMAIN sorted :
                             sorted[j].priority <= cb.priority})
    IN SubSeq(sorted, 1, n) \o <<cb>> \o SubSeq(sorted, n + 1, Len(sorted))

\* the hookpoint's callbacks ordered by ascending priority, registration
\* order kept among equal priorities
RECURSIVE SortedByPriority(_, _)
SortedByPriority(reg, n) ==
    IF n = 0 THEN <<>>
    ELSE InsertByPriority(SortedByPriority(reg, n - 1), reg[n])

\* firing a phase: the names of the callbacks, in invocation order
Dispatch(reg) ==
    LET order == SortedByPriority(reg, Len(reg))
    IN [i \in DOMAIN order |-> order[i].name]

----------------------------------------------------------------------------
(* The Lambda request-context callback *)

\* top-level keys of the events, and the values of their "version"
EventKeys == {"version", "httpMethod", "Records"}
Versions == {"1.0", "2.0", "3.0", "4.0"}

\* the events handed to the handler: dicts over some of the keys
Events ==
    {e \in UNION {[K -> Versions \cup {"value"}] : K \in SUBSET EventKeys} :
        \A k \in DOMAIN e : (k = "version") <=> (e[k] \in Versions)}

\* event.get(key)
EventGet(event, key) == IF key \in DOMAIN event THEN event[key] ELSE None

\* frozenset(event.keys())
EventType(event) == DOMAIN event

\* the storage holds no request
NoRequest == [klass |-> None, event |-> << >>]

\* RecordRequestContext._store_request: the storage holds the request
StoredRequest(klass, event) == [klass |-> klass, event |-> event]

\* variant of RecordRequestContextAWSLambda_pre: the shape is not added
RecordRequestContextAWSLambda_pre_no_add(event, unsupported, stored) ==
    LET version == EventGet(event, "version")
    IN IF version = "2.0"
       THEN [outcome |-> Return(None), unsupported |-> unsupported,
             request |-> StoredRequest("AWSLambdaProxyV2Request", event)]
       ELSE IF version = "1.0" \/ "httpMethod" \in DOMAIN event
       THEN [outcome |-> Return(None), unsupported |-> unsupported,
             request |-> StoredRequest("AWSLambdaProxyV1Request", event)]
       ELSE IF EventType(event) \notin unsupported
       THEN [outcome |-> Raise("UnsupportedAWSLambdaEvent"),
             unsupported |-> unsupported, request |-> stored]
       ELSE [outcome |-> Return(None), unsupported |-> unsupported,
             request |-> stored]

\* variant of RecordRequestContextAWSLambda_pre: a supported event empties
\* the set of reported shapes
RecordRequestContextAWSLambda_pre_reset(event, unsupported, stored) ==
    LET r == RecordRequestContextAWSLambda_pre_no_add(event, unsupported,
                                                      stored)
    IN IF r.outcome.kind = "raise"
       THEN [r EXCEPT !.unsupported = unsupported \cup {EventType(event)}]
       ELSE IF r.request # stored THEN [r EXCEPT !.unsupported = {}] ELSE r

\* RecordRequestContextAWSLambda.pre(instance, (event,), kwargs): the
\* outcome, UNSUPPORTED_LAMBDA_EVENTS and the stored request afterwards
RecordRequestContextAWSLambda_pre(event, unsupported, stored) ==
    LET version == EventGet(event, "version")
    IN IF version = "2.0"
       THEN [outcome |-> Return(None), unsupported |-> unsupported,
             request |-> StoredRequest("AWSLambdaProxyV2Request", event)]
       ELSE IF version = "1.0" \/ "httpMethod" \in DOMAIN event
       THEN [outcome |-> Return(None), unsupported |-> unsupported,
             request |-> StoredRequest("AWSLambdaProxyV1Request", event)]
       ELSE LET event_type == EventType(event)
            IN IF event_type \notin unsupported
               THEN [outcome |-> Raise("UnsupportedAWSLambdaEvent"),
                     unsupported |-> unsupported \cup {event_type},
                     request |-> stored]
               ELSE [outcome |-> Return(None), unsupported |-> unsupported,
                     request |-> stored]

----------------------------------------------------------------------------
(* from_rule_dict, and the reactive callback *)

\* the fields of rule_dict["hookpoint"]
HookpointKeys == {"klass", "method", "strategy"}

\* rule_dict["hookpoint"]: absent, or a dict with some of its fields
HookpointInputs ==
    {[present |-> FALSE, keys |-> {}]}
    \cup {[present |-> TRUE, keys |-> K] : K \in SUBSET HookpointKeys}

\* the rule descriptions: the hookpoint, whether conditions are declared,
\* the call_count_interval
RuleDicts ==
    [hookpoint : HookpointInputs,
     conditions : {None, "tree"},
     call_count_interval : {Null, Num(1)}]

NoRule ==
    [hookpoint |-> [present |-> FALSE, keys |-> {}],
     conditions |-> None, call_count_interval |-> Null]

\* no callback has been built
NotBuilt ==
    [class |-> None, outcome |-> NoOutcome, strategy |-> None,
     handler |-> <<>>]

\* from_rule_dict did not return: the lookup of key raised KeyError
KeyErrorOn(key) ==
    [class |-> None, outcome |-> Raise(<<"KeyError", key>>),
     strategy |-> None, handler |-> <<>>]

\* variant of RuleCallback_from_rule_dict: klass and method read with
\* .get, as the strategy is
RuleCallback_from_rule_dict_lenient(d) ==
    IF ~d.hookpoint.present THEN KeyErrorOn("hookpoint")
    ELSE [class |-> "RuleCallback", outcome |-> Return("callback"),
          strategy |-> IF "strategy" \in d.hookpoint.keys
                       THEN "declared_strategy" ELSE "import_hook",
          handler |-> <<>>]

\* RuleCallback.from_rule_dict: rule_dict["hookpoint"]["klass"] and
\* ["method"] are subscripts, the strategy is
\* rule_dict["hookpoint"].get("strategy", "import_hook")
RuleCallback_from_rule_dict(d) ==
    IF ~d.hookpoint.present THEN KeyErrorOn("hookpoint")
    ELSE IF "klass" \notin d.hookpoint.keys THEN KeyErrorOn("klass")
    ELSE IF "method" \notin d.hookpoint.keys THEN KeyErrorOn("method")
    ELSE [class |-> "RuleCallback", outcome |-> Return("callback"),
          strategy |-> IF "strategy" \in d.hookpoint.keys
                       THEN "declared_strategy" ELSE "import_hook",
          handler |-> <<>>]

HANDLER == "handler"

\* variant of ComposeReactive: the four _apply_* calls of RuleCallback
ComposeReactiveAsRuleCallback(d, debug, r) ==
    apply_perf_monitoring(
        apply_call_count(
            Wrap(apply_debug_log([l \in {HANDLER} |-> <<HANDLER>>], debug),
                 IF d.conditions = None THEN {} ELSE {HANDLER}, GATE),
            d.call_count_interval.value),
        r)[HANDLER]

\* ReactiveRuleCallback.__init__: _apply_debug_log(["handler"]) then
\* _apply_perf_monitoring(["handler"]); the rule's conditions and
\* call_count_interval are not read
ComposeReactive(d, debug, r) ==
    apply_perf_monitoring(
        apply_debug_log([l \in {HANDLER} |-> <<HANDLER>>], debug),
        r)[HANDLER]

\* ReactiveRuleCallback.from_rule_dict
ReactiveRuleCallback_from_rule_dict(d, debug, r) ==
    [class |-> "ReactiveRuleCallback", outcome |-> Return("callback"),
     strategy |-> None, handler |-> ComposeReactive(d, debug, r)]

\* ReactiveRuleCallback.handler: `raise NotImplementedError`
ReactiveRuleCallback_handler == Raise("NotImplementedError")

\* one invocation of the effective handler: the layers entered, the trace
\* scopes opened, and what comes back through the wrappers
InvokeHandler(chain) ==
    LET scopes == IF \E i \in DOMAIN chain : chain[i] = PERF
                  THEN <<metric_name(HANDLER)>> ELSE <<>>
        st == Unwind(chain, Len(chain) - 1,
                     [outcome |-> ReactiveRuleCallback_handler,
                      open |-> scopes,
                      returns |-> <<ReactiveRuleCallback_handler>>])
    IN [trail |-> chain, scopes |-> scopes, open |-> st.open,
        outcome |-> st.outcome]

----------------------------------------------------------------------------
(* ExecuteRunner *)

\* variant of FlushOrder: the heartbeat sent before the deliverer is drained
FlushOrderHeartbeatFirst ==
    <<"handle_messages", "aggregate_observations", "publish_metrics",
      "do_heartbeat", "deliverer.drain">>

\* ExecuteRunner._flush: the calls on the runner, in the order of the code
FlushOrder ==
    <<"handle_messages", "aggregate_observations", "publish_metrics",
      "deliverer.drain", "do_heartbeat">>

\* the lifecycle methods ExecuteRunner defines
ExecuteRunnerPhases == {"post", "failing"}

\* no invocation of ExecuteRunner in progress
NoFlush == [pc |-> "idle", phase |-> None, steps |-> <<>>]

\* an invocation that ended: its phase, the runner calls it made and
\* what it gave back
Flushed(phase, steps, outcome) ==
    [phase |-> phase, steps |-> steps, outcome |-> outcome]

----------------------------------------------------------------------------
(* SDK events: track and track_action *)

\* event names, as the sequence of their parts
SQREEN_EVENT_PREFIX == <<"s", "q", ".">>

EventNames ==
    { <<"s", "q", ".">>, <<"s", "q", ".", "action.", "block">>,
      <<"s", "q", ".", "custom">>, <<"s", "q">>, <<"s", "q", "custom", ".">>,
      <<"x", "s", "q", ".">>, <<"signup">> }

\* what track is given as event: a string, or an object that is not one
TrackEvents ==
    [string : {TRUE}, name : EventNames]
    \cup {[string |-> FALSE, name |-> <<>>]}

\* the options of track that decide what it does: the timestamp and
\* collect_body
TrackOptions ==
    [timestamp : {"absent", "aware_datetime", "not_datetime"},
     collect_body : BOOLEAN]

\* the actions given to track_action
Actions == [name : {"block", "redirect"}, send_response : BOOLEAN]

\* variant of startswith: the whole name compared with the prefix
startswith_equal(name, prefix) == name = prefix

\* str.startswith
startswith(name, prefix) ==
    /\ Len(name) >= Len(prefix)
    /\ SubSeq(name, 1, Len(prefix)) = prefix

\* "sq.action.{}".format(action.name)
ActionEventName(action) == SQREEN_EVENT_PREFIX \o <<"action.", action.name>>

\* _track_unsafe: the event handed to storage.observe("sdk", ...), with
\* "params" among the payload sections when collect_body is set
track_unsafe(name, collect_body, source) ==
    [result |-> Return(TRUE),
     recorded |-> <<[category |-> "sdk", source |-> source, event |-> name,
                     params |-> collect_body]>>]

\* a call that records nothing
NotRecorded(outcome) == [result |-> outcome, recorded |-> <<>>]

\* sdk.events.track(event, options)
track(event, options) ==
    IF ~event.string THEN NotRecorded(Raise("TypeError"))
    ELSE IF startswith(event.name, SQREEN_EVENT_PREFIX)
    THEN NotRecorded(Return(FALSE))
    ELSE IF options.timestamp = "not_datetime"
    THEN NotRecorded(Raise("TypeError"))
    ELSE track_unsafe(event.name, options.collect_body, "track")

\* sdk.events.track_action(action, output)
track_action(action) ==
    IF ~action.send_response THEN NotRecorded(Return(FALSE))
    ELSE track_unsafe(ActionEventName(action), TRUE, "track")

----------------------------------------------------------------------------
(* Construction *)

\* RuleCallback.__init__ for any rule: the callback just constructed
InitRuleCallback ==
    /\ \E i \in IntervalInputs : call_count_interval = IntervalOrZero(i)
    /\ conditions \in ConditionMaps
    /\ debug_enabled \in BOOLEAN
    /\ runner \in Runners
    /\ handlers = ComposeHandlers(conditions, call_count_interval,
                                  debug_enabled, runner)
    /\ call_counts = [l \in Lifecycles |-> 0]
    /\ observations = EmptyBag
    /\ ncalls = [l \in Lifecycles |-> 0]
    /\ inv = [t \in Threads |-> IdleFrame]

\* nothing has been called on the callback directly
AtRest ==
    /\ last = NoCall
    /\ registry = <<>>
    /\ fired = <<>>
    /\ UNSUPPORTED_LAMBDA_EVENTS = {}
    /\ request = NoRequest
    /\ pre_calls = <<>>
    /\ rule_dict = NoRule
    /\ built = NotBuilt
    /\ handler_calls = <<>>
    /\ exec = NoFlush
    /\ flushes = <<>>
    /\ sdk_calls = <<>>
    /\ sdk_events = <<>>

\* a callback of a class that keeps the default SUPPORTS_BUDGET, under a
\* runner without a request budget, serving requests that are not whitelisted
Init ==
    /\ InitRuleCallback
    /\ supports_budget = SUPPORTS_BUDGET
    /\ budget = Null
    /\ whitelist_match = None
    /\ AtRest

----------------------------------------------------------------------------
(* Invocations *)

TotalCalls == ncalls["pre"] + ncalls["post"] + ncalls["failing"]

\* the runner invokes the effective handler of a lifecycle
Call(t, maxcalls) ==
    /\ inv[t].pc \in {"idle", "done"}
    /\ TotalCalls < maxcalls
    /\ \E l \in Lifecycles :
          /\ inv' = [inv EXCEPT ![t] = NewFrame(l)]
          /\ ncalls' = [ncalls EXCEPT ![l] = @ + 1]
    /\ UNCHANGED <<config, others, call_counts, observations>>

\* debug_log_wrapper.wrapper
DebugLog(t) ==
    /\ AtLayer(inv[t], DEBUG)
    /\ inv' = [inv EXCEPT ![t] = Delegate(@, DEBUG, @.passing)]
    /\ UNCHANGED <<config, others, call_counts, observations, ncalls>>

\* perf_monitoring_wrapper.wrapper: entering `with storage.trace(name)`
PerfEnter(t) ==
    /\ AtLayer(inv[t], PERF)
    /\ LET f == inv[t]
           name == metric_name(f.lifecycle)
           g == [f EXCEPT !.open = Append(@, name), !.scopes = Append(@, name)]
       IN inv' = [inv EXCEPT ![t] = Delegate(g, PERF, g.passing)]
    /\ UNCHANGED <<config, others, call_counts, observations, ncalls>>

\* call_count_wrapper.wrapper: `current_count = callback.call_counts[..]`
\* and the comparison with the interval
CountRead(t) ==
    /\ AtLayer(inv[t], COUNT)
    /\ LET f == inv[t]
           c == call_counts[CounterKey(f.lifecycle)]
       IN inv' = [inv EXCEPT ![t] =
                    [f EXCEPT !.current_count = c,
                              !.pc = IF ReachesInterval(c, call_count_interval)
                                     THEN "count_observe" ELSE "count_incr"]]
    /\ UNCHANGED <<config, others, call_counts, observations, ncalls>>

\* call_count_wrapper.wrapper: callback.record_observation(...)
CountObserve(t) ==
    /\ inv[t].pc = "count_observe"
    /\ LET f == inv[t]
           e == ObservationEvent("sqreen_call_counts",
                                 observation_key(f.lifecycle),
                                 call_count_interval)
       IN /\ inv' = [inv EXCEPT ![t] =
                       [f EXCEPT !.pc = "count_reset",
                                 !.observed = Append(@, e)]]
          /\ observations' = observations (+) SetToBag({e.payload})
    /\ UNCHANGED <<config, others, call_counts, ncalls>>

\* call_count_wrapper.wrapper: `callback.call_counts[lifecycle] = 0`, then
\* the wrapped handler is called
CountReset(t) ==
    /\ inv[t].pc = "count_reset"
    /\ LET f == inv[t]
       IN /\ call_counts' = [call_counts EXCEPT ![CounterKey(f.lifecycle)] = 0]
          /\ inv' = [inv EXCEPT ![t] =
                       Delegate(f, COUNT, call_count_wrapped_call(f.passing))]
    /\ UNCHANGED <<config, others, observations, ncalls>>

\* call_count_wrapper.wrapper: `callback.call_counts[lifecycle] += 1` reads
\* the counter ...
CountIncrRead(t) ==
    /\ inv[t].pc = "count_incr"
    /\ inv' = [inv EXCEPT ![t] =
                 [@ EXCEPT !.tmp = call_counts[CounterKey(inv[t].lifecycle)],
                           !.pc = "count_store"]]
    /\ UNCHANGED <<config, others, call_counts, observations, ncalls>>

\* ... and stores the sum, then the wrapped handler is called
CountIncrStore(t) ==
    /\ inv[t].pc = "count_store"
    /\ LET f == inv[t]
       IN /\ call_counts' = [call_counts EXCEPT ![CounterKey(f.lifecycle)] = f.tmp + 1]
          /\ inv' = [inv EXCEPT ![t] =
                       Delegate(f, COUNT, call_count_wrapped_call(f.passing))]
    /\ UNCHANGED <<config, others, observations, ncalls>>

\* check_condition_wrapper.wrapper
CheckCondition(t) ==
    /\ AtLayer(inv[t], GATE)
    /\ \E result \in CondResults, stored \in CurrentArgs :
          LET f == inv[t]
              g == [f EXCEPT
                      !.condition_result = result,
                      !.eval_args = get_current_args(stored, f.passing.args),
                      !.eval_rv = ConditionRv(f.lifecycle, f.passing.options)]
          IN inv' = [inv EXCEPT ![t] =
                IF SkipsPhase(result)
                THEN [g EXCEPT !.pc = "return",
                               !.trail = Append(@, [layer |-> GATE,
                                                    call |-> f.passing]),
                               !.returns = <<Return(None)>>]
                ELSE Delegate(g, GATE,
                              check_condition_wrapped_call(g.passing,
                                                           g.eval_args))]
    /\ UNCHANGED <<config, others, call_counts, observations, ncalls>>

\* the lifecycle method's own logic
Inner(t) ==
    /\ AtLayer(inv[t], INNER)
    /\ \E b \in InnerBehaviours :
          LET f == inv[t]
          IN inv' = [inv EXCEPT ![t] =
                [f EXCEPT !.pc = "return",
                          !.inner_runs = @ + 1,
                          !.inner_call = f.passing,
                          !.inner_outcome = InnerOutcome(b),
                          !.observed = @ \o InnerEvents(b, f.lifecycle),
                          !.trail = Append(@, [layer |-> INNER,
                                               call |-> f.passing]),
                          !.returns = <<InnerOutcome(b)>>]]
    /\ UNCHANGED <<config, others, call_counts, observations, ncalls>>

\* the outcome travels back to the caller through the enclosing wrappers
ReturnToCaller(t) ==
    /\ inv[t].pc = "return"
    /\ LET f == inv[t]
           st == Unwind(Layers(f), f.depth - 1,
                        [outcome |-> f.returns[1], open |-> f.open,
                         returns |-> f.returns])
       IN inv' = [inv EXCEPT ![t] =
                    [f EXCEPT !.pc = "done", !.outcome = st.outcome,
                              !.open = st.open, !.returns = st.returns]]
    /\ UNCHANGED <<config, others, call_counts, observations, ncalls>>

Step(t, maxcalls) ==
    \/ Call(t, maxcalls)
    \/ DebugLog(t)
    \/ PerfEnter(t)
    \/ CountRead(t)
    \/ CountObserve(t)
    \/ CountReset(t)
    \/ CountIncrRead(t)
    \/ CountIncrStore(t)
    \/ CheckCondition(t)
    \/ Inner(t)
    \/ ReturnToCaller(t)

\* one thread: invocations never overlap
Next == \E t \in SeqThreads : Step(t, MaxCalls)
Spec == Init /\ [][Next]_vars

\* several threads invoke the handlers of the one callback concurrently
NextConc == \E t \in Threads : Step(t, MaxConcCalls)
\* the callbacks SpecConc follows: sampling with an interval of 2 or more,
\* under debug logging and performance monitoring (every wrapper applies)
InitConc ==
    /\ Init
    /\ call_count_interval >= 2
    /\ debug_enabled
    /\ performance_monitoring_enabled(runner)
SpecConc == InitConc /\ [][NextConc]_vars

----------------------------------------------------------------------------
(* Direct calls of the BaseCallback operations *)

\* the runner reads callback.collaborative
ReadCollaborative ==
    /\ last' = [op |-> "collaborative", input |-> << >>,
                result |-> collaborative(supports_budget)]
    /\ UNCHANGED <<config, call_counts, observations, ncalls, inv,
                   whitelist_match, hook, lambda, rest>>

\* callback.get_remaining_budget(callback_kwargs)
GetRemainingBudget ==
    /\ \E kwargs \in KwargsInputs, sq_time \in ElapsedTimes :
          last' = [op |-> "get_remaining_budget",
                   input |-> [kwargs |-> kwargs, sq_time |-> sq_time],
                   result |-> get_remaining_budget(kwargs, runner, budget,
                                                   sq_time)]
    /\ UNCHANGED <<config, call_counts, observations, ncalls, inv,
                   whitelist_match, hook, lambda, rest>>

\* callback.record_exception(exc, exc_info, stack)
RecordException ==
    /\ \E x \in ExceptionInputs :
          last' = [op |-> "record_exception", input |-> x,
                   result |-> record_exception(x)]
    /\ UNCHANGED <<config, call_counts, observations, ncalls, inv,
                   whitelist_match, hook, lambda, rest>>

\* a callback without sampling and debug logging, of a class with or
\* without budget support, under any runner and request budget
InitBase ==
    /\ InitRuleCallback
    /\ call_count_interval = 0
    /\ ~debug_enabled
    /\ supports_budget \in BOOLEAN
    /\ budget \in Budgets
    /\ whitelist_match = None
    /\ AtRest
NextBase == ReadCollaborative \/ GetRemainingBudget \/ RecordException
SpecBase == InitBase /\ [][NextBase]_vars

\* callbacks on which every wrapper applies, serving requests that are or
\* are not whitelisted
InitWhitelist ==
    /\ InitRuleCallback
    /\ call_count_interval >= 1
    /\ debug_enabled
    /\ performance_monitoring_enabled(runner)
    /\ supports_budget = SUPPORTS_BUDGET
    /\ budget = Null
    /\ whitelist_match \in WhitelistMatches
    /\ AtRest
SpecWhitelist == InitWhitelist /\ [][Next]_vars

----------------------------------------------------------------------------
(* Registration on a hookpoint and firing *)

\* a callback is built from a rule description and registered
Register ==
    /\ fired = <<>>
    /\ Len(registry) < MaxCallbacks
    /\ Len(registry) < Len(RuleNames)
    /\ \E priority \in PriorityInputs :
          registry' = Append(registry,
                             from_rule_dict(RuleNames[Len(registry) + 1],
                                            priority))
    /\ UNCHANGED <<config, call_counts, observations, ncalls, inv,
                   whitelist_match, last, fired, lambda, rest>>

\* the Lambda adapter's callbacks are registered, in list order
RegisterAdapter ==
    /\ fired = <<>>
    /\ registry = <<>>
    /\ registry' = instrumentation_callbacks
    /\ UNCHANGED <<config, call_counts, observations, ncalls, inv,
                   whitelist_match, last, fired, lambda, rest>>

\* the hookpoint fires a phase
Fire ==
    /\ Len(fired) < MaxFirings
    /\ fired' = Append(fired, Dispatch(registry))
    /\ UNCHANGED <<config, call_counts, observations, ncalls, inv,
                   whitelist_match, last, registry, lambda, rest>>

\* a hookpoint with nothing registered yet; the callbacks' own wrappers
\* play no part in the order
InitHook ==
    /\ InitRuleCallback
    /\ call_count_interval = 0
    /\ ~debug_enabled
    /\ ~runner.present
    /\ supports_budget = SUPPORTS_BUDGET
    /\ budget = Null
    /\ whitelist_match = None
    /\ AtRest
NextHook == Register \/ RegisterAdapter \/ Fire
SpecHook == InitHook /\ [][NextHook]_vars

----------------------------------------------------------------------------
(* Lambda invocations *)

\* a new request starts: the storage holds no request
NewRequest ==
    /\ request # NoRequest
    /\ request' = NoRequest
    /\ UNCHANGED <<config, call_counts, observations, ncalls, inv,
                   whitelist_match, last, hook, rest,
                   UNSUPPORTED_LAMBDA_EVENTS, pre_calls>>

\* the handler is invoked with an event: handle_event_request fires and
\* RecordRequestContextAWSLambda.pre runs
LambdaPre ==
    /\ request = NoRequest
    /\ Len(pre_calls) < MaxEvents
    /\ \E event \in Events :
          LET r == RecordRequestContextAWSLambda_pre(
                       event, UNSUPPORTED_LAMBDA_EVENTS, request)
          IN /\ UNSUPPORTED_LAMBDA_EVENTS' = r.unsupported
             /\ request' = r.request
             /\ pre_calls' = Append(pre_calls,
                                    [event |-> event, outcome |-> r.outcome,
                                     stored |-> r.request # request])
    /\ UNCHANGED <<config, call_counts, observations, ncalls, inv,
                   whitelist_match, last, hook, rest>>

\* the Lambda request-context callback: no conditions, no sampling
InitLambda ==
    /\ InitRuleCallback
    /\ call_count_interval = 0
    /\ conditions = [l \in Lifecycles |-> None]
    /\ ~debug_enabled
    /\ ~runner.present
    /\ supports_budget = SUPPORTS_BUDGET
    /\ budget = Null
    /\ whitelist_match = None
    /\ AtRest
NextLambda == LambdaPre \/ NewRequest
SpecLambda == InitLambda /\ [][NextLambda]_vars

----------------------------------------------------------------------------
(* A callback's lifetime: invocations and direct calls, in any order *)

\* a callback with every wrapper, under a runner with a request budget
InitLifetime ==
    /\ InitRuleCallback
    /\ call_count_interval \in {1, 2}
    /\ conditions["pre"] = "tree"
    /\ debug_enabled
    /\ performance_monitoring_enabled(runner)
    /\ supports_budget = SUPPORTS_BUDGET
    /\ budget = Num(MaxBudget)
    /\ whitelist_match = None
    /\ AtRest
\* one thread: a direct call is made between two invocations
NextLifetime ==
    \/ \E t \in SeqThreads : Step(t, MaxLifetimeCalls)
    \/ (\A t \in Threads : inv[t].pc \in {"idle", "done"})
          /\ (ReadCollaborative \/ GetRemainingBudget \/ RecordException)
SpecLifetime == InitLifetime /\ [][NextLifetime]_vars

----------------------------------------------------------------------------
(* Invocations of ExecuteRunner *)

\* ExecuteRunner.post / ExecuteRunner.failing is invoked: `self._flush()`
ExecuteRunnerCall ==
    /\ exec.pc = "idle"
    /\ Len(flushes) < MaxFlushes
    /\ \E phase \in ExecuteRunnerPhases :
          exec' = [pc |-> "flush", phase |-> phase, steps |-> <<>>]
    /\ UNCHANGED <<config, pipeline, whitelist_match, last, hook, lambda,
                   build, flushes, sdk>>

\* _flush makes its next call on the runner, which returns or raises; an
\* exception ends the invocation, and so does the return of the last call
FlushStep ==
    /\ exec.pc = "flush"
    /\ \E raises \in BOOLEAN :
          LET step == FlushOrder[Len(exec.steps) + 1]
              steps == Append(exec.steps, step)
          IN IF raises
             THEN /\ flushes' = Append(flushes,
                                       Flushed(exec.phase, steps, Raise(step)))
                  /\ exec' = NoFlush
             ELSE IF Len(steps) = Len(FlushOrder)
             THEN /\ flushes' = Append(flushes,
                                       Flushed(exec.phase, steps, Return(None)))
                  /\ exec' = NoFlush
             ELSE /\ exec' = [exec EXCEPT !.steps = steps]
                  /\ UNCHANGED flushes
    /\ UNCHANGED <<config, pipeline, whitelist_match, last, hook, lambda,
                   build, sdk>>

\* the Lambda adapter's ExecuteRunner callback, not yet invoked
InitFlush ==
    /\ InitRuleCallback
    /\ call_count_interval = 0
    /\ conditions = [l \in Lifecycles |-> None]
    /\ ~debug_enabled
    /\ runner.present
    /\ supports_budget = SUPPORTS_BUDGET
    /\ budget = Null
    /\ whitelist_match = None
    /\ AtRest
NextFlush == ExecuteRunnerCall \/ FlushStep
SpecFlush == InitFlush /\ [][NextFlush]_vars

----------------------------------------------------------------------------
(* Calls of the SDK *)

\* the host application calls sqreen.track(event, options)
Track ==
    /\ Len(sdk_calls) < MaxSdkCalls
    /\ \E event \in TrackEvents, options \in TrackOptions :
          LET r == track(event, options)
          IN /\ sdk_calls' = Append(sdk_calls,
                                    [op |-> "track", event |-> event,
                                     send_response |-> FALSE,
                                     result |-> r.result,
                                     recorded |-> r.recorded])
             /\ sdk_events' = sdk_events \o r.recorded
    /\ UNCHANGED <<config, pipeline, whitelist_match, last, hook, lambda,
                   build, flush>>

\* the agent calls track_action(action, output) after a security action
TrackAction ==
    /\ Len(sdk_calls) < MaxSdkCalls
    /\ \E action \in Actions :
          LET r == track_action(action)
          IN /\ sdk_calls' = Append(sdk_calls,
                                    [op |-> "track_action",
                                     event |-> [string |-> TRUE,
                                                name |-> ActionEventName(action)],
                                     send_response |-> action.send_response,
                                     result |-> r.result,
                                     recorded |-> r.recorded])
             /\ sdk_events' = sdk_events \o r.recorded
    /\ UNCHANGED <<config, pipeline, whitelist_match, last, hook, lambda,
                   build, flush>>

\* a storage that has been handed no SDK event
InitSdk ==
    /\ InitRuleCallback
    /\ call_count_interval = 0
    /\ conditions = [l \in Lifecycles |-> None]
    /\ ~debug_enabled
    /\ ~runner.present
    /\ supports_budget = SUPPORTS_BUDGET
    /\ budget = Null
    /\ whitelist_match = None
    /\ AtRest
NextSdk == Track \/ TrackAction
SpecSdk == InitSdk /\ [][NextSdk]_vars

----------------------------------------------------------------------------
(* Building callbacks from rule descriptions *)

\* RuleCallback.from_rule_dict(rule_dict, runner, storage)
BuildRuleCallback ==
    /\ built = NotBuilt
    /\ \E d \in RuleDicts :
          /\ rule_dict' = d
          /\ built' = RuleCallback_from_rule_dict(d)
    /\ UNCHANGED <<config, pipeline, whitelist_match, last, hook, lambda,
                   handler_calls, flush, sdk>>

\* ReactiveRuleCallback.from_rule_dict(rule_dict, runner, storage)
BuildReactiveRuleCallback ==
    /\ built = NotBuilt
    /\ \E d \in RuleDicts :
          /\ rule_dict' = d
          /\ built' = ReactiveRuleCallback_from_rule_dict(d, debug_enabled,
                                                          runner)
    /\ UNCHANGED <<config, pipeline, whitelist_match, last, hook, lambda,
                   handler_calls, flush, sdk>>

\* the reactive engine invokes callback.handler
ReactiveHandler ==
    /\ built.class = "ReactiveRuleCallback"
    /\ Len(handler_calls) < MaxHandlerCalls
    /\ handler_calls' = Append(handler_calls, InvokeHandler(built.handler))
    /\ UNCHANGED <<config, pipeline, whitelist_match, last, hook, lambda,
                   rule_dict, built, flush, sdk>>

\* nothing built yet, under any runner and logging level
InitBuild ==
    /\ InitRuleCallback
    /\ call_count_interval = 0
    /\ conditions = [l \in Lifecycles |-> None]
    /\ supports_budget = SUPPORTS_BUDGET
    /\ budget = Null
    /\ whitelist_match = None
    /\ AtRest
NextBuild == BuildRuleCallback \/ BuildReactiveRuleCallback \/ ReactiveHandler
SpecBuild == InitBuild /\ [][NextBuild]_vars

----------------------------------------------------------------------------
(* Properties *)

Frames == {inv[t] : t \in Threads}
Applied(f, wrapper) == \E i \in DOMAIN Layers(f) : Layers(f)[i] = wrapper
Entered(f, wrapper) == \E i \in DOMAIN f.trail : f.trail[i].layer = wrapper
Skipped(f) == f.pc # "idle" /\ f.condition_result \in {"false", "null"}
Quiescent == \A t \in Threads : inv[t].pc \in {"idle", "done"}
CallCountPayload(l) ==
    <<"sqreen_call_counts", observation_key(l), call_count_interval>>
CallCountEvent(l) ==
    ObservationEvent("sqreen_call_counts", observation_key(l),
                     call_count_interval)

\* C1: an invocation of pre, post or failing whose condition evaluates to
\* false or null never enters the lifecycle method (nor any layer the gate
\* wraps) and returns None to its caller.
C1_SkippedPhaseReturnsNone ==
    \A f \in Frames :
        Skipped(f) =>
            /\ f.inner_runs = 0
            /\ ~Entered(f, INNER)
            /\ ~Entered(f, DEBUG)
            /\ f.pc = "done" => f.outcome = Return(None)

C1_Witness ==
    \E f \in Frames :
        /\ f.pc = "done" /\ f.lifecycle = "failing"
        /\ f.condition_result = "null" /\ f.outcome = Return(None)

\* C2 as stated: an invocation whose condition evaluates to false or null
\* hands no event at all to storage.observe.
C2_NoEventWhenSkipped ==
    \A f \in Frames : Skipped(f) => f.observed = <<>>

\* C2 amended: an invocation whose condition evaluates to false or null
\* records no attack and no observation of the lifecycle method; the one
\* event it may record is the sampler's "sqreen_call_counts" observation,
\* once, when this invocation brings the counter to the interval.
C2_OnlySampledCountWhenSkipped ==
    \A f \in Frames :
        Skipped(f) =>
            /\ Len(f.observed) <= 1
            /\ \A i \in DOMAIN f.observed :
                  /\ f.observed[i] = CallCountEvent(f.lifecycle)
                  /\ Applied(f, COUNT)
                  /\ f.current_count + 1 = call_count_interval

C2_Witness ==
    \E f \in Frames :
        /\ f.pc = "done" /\ f.condition_result = "false"
        /\ f.observed = <<CallCountEvent(f.lifecycle)>>

\* C3: an invocation whose condition evaluates to true runs the lifecycle
\* method exactly once, with the inst, args, kwargs and options of the
\* caller, and returns (or raises) what the lifecycle method did.
C3_TrueConditionRunsInnerOnce ==
    \A f \in Frames :
        (f.pc = "done" /\ f.condition_result = "true") =>
            /\ f.inner_runs = 1
            /\ f.inner_call = f.call
            /\ f.inner_call = CallerCall(f.lifecycle)
            /\ f.outcome = f.inner_outcome

C3_Witness ==
    \E f \in Frames :
        /\ f.pc = "done" /\ f.condition_result = "true"
        /\ f.eval_args = "stored_args" /\ f.inner_call.args = "args"
        /\ f.inner_runs = 1 /\ f.outcome = Return("decision")

\* C4: with an interval K >= 1 and no overlapping invocations, after n
\* invocations of a lifecycle its counter is n mod K and exactly n div K
\* "sqreen_call_counts" observations exist under its key, all with value K.
C4_SamplingEveryKthCall ==
    (Quiescent /\ call_count_interval >= 1) =>
        /\ \A l \in Lifecycles :
              /\ CopiesIn(CallCountPayload(l), observations)
                    = ncalls[l] \div call_count_interval
              /\ call_counts[l] = ncalls[l] % call_count_interval
        /\ BagToSet(observations) \subseteq
              {CallCountPayload(l) : l \in Lifecycles}

C4_Witness ==
    /\ Quiescent /\ call_count_interval = 3 /\ ncalls["pre"] = 6
    /\ CopiesIn(CallCountPayload("pre"), observations) = 2
    /\ call_counts["pre"] = 0

\* C5: with an interval K >= 1 and no overlapping invocations every counter
\* stays in 0..K-1, and a counter is written back to 0 only by the
\* invocation that read K-1.
C5_CounterInRangeResetAtInterval ==
    /\ [](call_count_interval >= 1 =>
            \A l \in Lifecycles : call_counts[l] \in 0..(call_count_interval - 1))
    /\ [][\A l \in Lifecycles :
            /\ (call_counts[l] # 0 /\ call_counts'[l] = 0)
                  => call_counts[l] + 1 = call_count_interval
            /\ (\E t \in Threads :
                   /\ inv[t].pc = "count_reset" /\ inv[t].lifecycle = l
                   /\ inv'[t].pc # "count_reset")
                  => call_counts[l] + 1 = call_count_interval]_vars

C5_Witness ==
    \E f \in Frames :
        /\ call_count_interval = 3 /\ Entered(f, COUNT)
        /\ f.current_count = 2 /\ call_counts[f.lifecycle] = 0
        /\ ncalls[f.lifecycle] = 3

\* C6: under concurrent invocations with an interval K >= 2 the counter
\* update is atomic in effect: every counter stays in 0..K-1 and, once all
\* invocations have ended, no increment is missing (the counter is the
\* number of invocations modulo K).
C6_ConcurrentCounterAtomic ==
    call_count_interval >= 2 =>
        \A l \in Lifecycles :
            /\ call_counts[l] \in 0..(call_count_interval - 1)
            /\ Quiescent => call_counts[l] = ncalls[l] % call_count_interval

\* C7: under concurrent invocations, once N >= K invocations of a lifecycle
\* have all ended, at least one "sqreen_call_counts" observation exists for
\* that lifecycle.
C7_ReportedAtLeastOnce ==
    \A l \in Lifecycles :
        (Quiescent /\ call_count_interval >= 1
                   /\ ncalls[l] >= call_count_interval)
            => CopiesIn(CallCountPayload(l), observations) >= 1

IndexOf(layers, wrapper) == CHOOSE i \in DOMAIN layers : layers[i] = wrapper

\* C8: on every invocation that went through the sampler, whatever the
\* counter and whether or not an observation was emitted, the handler the
\* sampler wraps was entered exactly once, with the caller's inst, args,
\* kwargs and options, and the sampler returned (or raised) what that
\* handler did.
C8_SamplerAlwaysDelegates ==
    \A f \in Frames :
        (f.pc = "done" /\ Applied(f, COUNT)) =>
            LET s == IndexOf(Layers(f), COUNT)
                entries == {i \in DOMAIN f.trail :
                               f.trail[i].layer = Layers(f)[s + 1]}
            IN /\ Cardinality(entries) = 1
               /\ \A i \in entries : f.trail[i].call = f.call
               /\ Len(f.returns) >= s + 1
               /\ f.returns[s] = f.returns[s + 1]

C8_Witness ==
    \E f \in Frames :
        /\ f.pc = "done" /\ Applied(f, COUNT) /\ f.lifecycle = "post"
        /\ f.observed = <<CallCountEvent("post"), AttackEvent>>
        /\ f.inner_runs = 1

\* C9: what the lifecycle method raises is what the caller of the effective
\* handler gets, whichever of the four wrappers are applied: every layer
\* raises it on unchanged.
C9_InnerExceptionPropagates ==
    \A f \in Frames :
        (f.pc = "done" /\ f.inner_outcome.kind = "raise") =>
            /\ f.outcome = f.inner_outcome
            /\ Len(f.returns) = Len(Layers(f))
            /\ \A i \in DOMAIN f.returns : f.returns[i] = f.inner_outcome

C9_Witness ==
    \E f \in Frames :
        /\ f.pc = "done" /\ f.outcome = Raise("error")
        /\ Layers(f) = <<PERF, COUNT, GATE, DEBUG, INNER>>

\* C10: with the performance monitor applied, an invocation opens exactly
\* one trace scope, named from the rule name and the lifecycle, and when the
\* invocation has ended, by return or by exception, no scope is open.
C10_TraceScopeClosed ==
    \A f \in Frames :
        Applied(f, PERF) =>
            /\ Len(f.scopes) <= 1
            /\ Entered(f, PERF) =>
                  f.scopes = <<metric_name(f.lifecycle)>>
            /\ f.pc \in {"layer", "count_observe", "count_reset",
                          "count_incr", "count_store", "return"}
                  => f.open = f.scopes
            /\ f.pc = "done" =>
                  /\ f.scopes = <<metric_name(f.lifecycle)>>
                  /\ f.open = <<>>

C10_Witness ==
    \E f \in Frames :
        /\ f.pc = "done" /\ Applied(f, PERF) /\ f.outcome = Raise("error")
        /\ f.scopes = <<metric_name(f.lifecycle)>> /\ f.open = <<>>

\* C11: with debug logging active at construction the debug trace is the
\* outermost layer: the first thing an invocation does is log the phase
\* entry, and every ended invocation has logged it, skipped ones included.
C11_DebugLoggedFirst ==
    \A f \in Frames :
        (debug_enabled /\ f.pc = "done") =>
            /\ Entered(f, DEBUG)
            /\ f.trail[1].layer = DEBUG

WithoutDebug(layers) ==
    LET NotDebug(w) == w # DEBUG IN SelectSeq(layers, NotDebug)
InProgress(f) == f.pc \notin {"idle", "done"}

\* C12: when the condition gate, the sampler and the performance monitor
\* all apply, the layers are entered in the order performance monitor,
\* sampler, gate, lifecycle method: the scope is open when the counter is
\* updated (and a due observation emitted), the counter is updated before
\* the condition is evaluated, the lifecycle method runs only on a true
\* condition, and the scope stays open until the invocation ends.
C12_LayersNestInOrder ==
    \A f \in Frames :
        (Applied(f, GATE) /\ Applied(f, COUNT) /\ Applied(f, PERF)) =>
            /\ WithoutDebug(Layers(f)) = <<PERF, COUNT, GATE, INNER>>
            /\ \A i \in DOMAIN f.trail : f.trail[i].layer = Layers(f)[i]
            /\ (InProgress(f) /\ f.pc # "layer") => Entered(f, PERF)
            /\ Entered(f, GATE) =>
                  /\ Entered(f, COUNT)
                  /\ ReachesInterval(f.current_count, call_count_interval)
                        => f.observed[1] = CallCountEvent(f.lifecycle)
            /\ Entered(f, INNER) => f.condition_result = "true"
            /\ (InProgress(f) /\ Entered(f, PERF))
                  => f.open = <<metric_name(f.lifecycle)>>
            /\ f.pc = "done" => f.open = <<>>

C12_Witness ==
    \E f \in Frames :
        /\ f.pc = "done" /\ f.condition_result = "true"
        /\ Layers(f) = <<PERF, COUNT, GATE, DEBUG, INNER>>
        /\ Len(f.trail) = 5
        /\ f.observed = <<CallCountEvent(f.lifecycle), AttackEvent>>

\* C13: an invocation goes through the performance-monitor layer, and a
\* trace scope is opened around the phase, only if performance monitoring
\* is enabled on the runner and the callback declares budget support.
C13_PerfLayerNeedsBudgetSupport ==
    \A f \in Frames :
        (Entered(f, PERF) \/ f.scopes # <<>>) =>
            /\ performance_monitoring_enabled(runner)
            /\ supports_budget

----------------------------------------------------------------------------
(* Properties of the BaseCallback operations *)

\* the last direct call was of op
Called(op) == last.op = op
\* the last call of get_remaining_budget carried a non-null override
HasOverride ==
    /\ last.input.kwargs.present
    /\ OVERRIDE \in DOMAIN last.input.kwargs.map
    /\ last.input.kwargs.map[OVERRIDE].given
\* the option map of the last call had the override key
HasOverrideKey ==
    /\ last.input.kwargs.present
    /\ OVERRIDE \in DOMAIN last.input.kwargs.map

\* C14: collaborative is true only if the callback declares budget
\* support and the runner has performance monitoring enabled.
C14_CollaborativeNeedsPerfMonitoring ==
    Called("collaborative") =>
        (last.result =>
            supports_budget /\ performance_monitoring_enabled(runner))

\* C15: with a non-null override O in the option map, get_remaining_budget
\* returns O whatever the runner, budget and elapsed time are, and leaves
\* the map without the override key and with every other key unchanged;
\* with no override key, it leaves the map as it was.
C15_OverrideReturnedAndRemoved ==
    Called("get_remaining_budget") =>
        LET before == last.input.kwargs.map
            after == last.result.kwargs.map
        IN /\ HasOverride =>
                /\ last.result.result = before[OVERRIDE]
                /\ DOMAIN after = DOMAIN before \ {OVERRIDE}
                /\ \A k \in DOMAIN after : after[k] = before[k]
           /\ ~HasOverrideKey => last.result.kwargs = last.input.kwargs

C15_Witness ==
    /\ Called("get_remaining_budget") /\ HasOverride
    /\ "result" \in DOMAIN last.input.kwargs.map
    /\ performance_monitoring_enabled(runner) /\ budget.given
    /\ last.input.kwargs.map[OVERRIDE].value
          # budget.value - SqTimeOrZero(last.input.sq_time)
    /\ last.result.result = last.input.kwargs.map[OVERRIDE]
    /\ DOMAIN last.result.kwargs.map = {"result"}

\* B - E, an unset elapsed time counting as 0
Remaining == Num(budget.value - (IF last.input.sq_time.given
                                 THEN last.input.sq_time.value ELSE 0))

\* C16 as stated: without an override, the call returns B - E whenever a
\* budget B is configured, and None exactly when no budget is configured.
C16_BudgetMinusElapsed ==
    (Called("get_remaining_budget") /\ ~HasOverride) =>
        /\ budget.given => last.result.result = Remaining
        /\ last.result.result = Null <=> ~budget.given

\* C16: without an override, under a runner with performance monitoring
\* enabled and a budget B configured the call returns B - E; it returns
\* None exactly when the runner is absent, has performance monitoring
\* disabled or has no budget configured.
C16_BudgetMinusElapsedWhenMonitored ==
    (Called("get_remaining_budget") /\ ~HasOverride) =>
        LET monitored == runner.present
                         /\ performance_monitoring_enabled(runner)
        IN /\ (monitored /\ budget.given) => last.result.result = Remaining
           /\ last.result.result = Null <=> ~(monitored /\ budget.given)

C16_Witness ==
    /\ Called("get_remaining_budget") /\ ~HasOverride
    /\ performance_monitoring_enabled(runner)
    /\ budget = Num(0) /\ last.input.sq_time = Num(MaxElapsed)
    /\ last.result.result = Num(0 - MaxElapsed)

\* C17: record_exception returns normally, whatever the exception object,
\* the stack, the traceback formatters and the storage event sink do.
C17_RecordExceptionNeverRaises ==
    Called("record_exception") => last.result.outcome = Return(None)

\* C18: for a whitelisted request, no "attacks" event reaches the storage
\* event sink during the invocation of a phase.
C18_NoAttackWhenWhitelisted ==
    whitelisted(whitelist_match) =>
        \A f \in Frames :
            \A i \in DOMAIN f.observed : f.observed[i] # AttackEvent

----------------------------------------------------------------------------
(* Properties of the dispatch *)

\* the priority the rule description of a registered callback stands for
StatedPriority(cb) == IF cb.given = Null THEN 100 ELSE cb.given.value
\* the place of the callback called name in the registration order
RegisteredAt(name) == CHOOSE i \in DOMAIN registry : registry[i].name = name
\* the callback invoked at place i of a firing
InvokedAt(order, i) == registry[RegisteredAt(order[i])]

\* the Lambda adapter's callbacks by ascending priority, the three of
\* priority 60 as the adapter lists them
LambdaOrder ==
    << "ecosystem_aws_lambda_execute_runner",
       "ecosystem_aws_lambda_request_context",
       "ecosystem_aws_lambda_legacy_http_code",
       "ecosystem_aws_lambda_ba_normal_http_counter",
       "ecosystem_aws_lambda_ba_error_http_counter",
       "ecosystem_aws_lambda_provide_data",
       "ecosystem_aws_lambda_record_response",
       "ecosystem_aws_lambda_error_page" >>

----------------------------------------------------------------------------
(* Properties of the Lambda request-context callback *)

\* an event the callback cannot normalise
Unsupported(event) ==
    /\ "httpMethod" \notin DOMAIN event
    /\ "version" \in DOMAIN event => event["version"] \notin {"1.0", "2.0"}
\* call i is the first one with an unsupported event of its shape
FirstOfShape(i) ==
    \A j \in 1..(i - 1) :
        ~(Unsupported(pre_calls[j].event)
          /\ DOMAIN pre_calls[j].event = DOMAIN pre_calls[i].event)

\* C20: over the calls of pre, the first unsupported event of a shape
\* raises UnsupportedAWSLambdaEvent, and every later event of that shape
\* returns without raising and without storing a request.
C20_RaisesOncePerShape ==
    \A i \in DOMAIN pre_calls :
        Unsupported(pre_calls[i].event) =>
            IF FirstOfShape(i)
            THEN pre_calls[i].outcome = Raise("UnsupportedAWSLambdaEvent")
            ELSE /\ pre_calls[i].outcome = Return(None)
                 /\ ~pre_calls[i].stored

C20_Witness ==
    /\ Len(pre_calls) = 3
    /\ Unsupported(pre_calls[1].event)
    /\ pre_calls[1].outcome = Raise("UnsupportedAWSLambdaEvent")
    /\ ~Unsupported(pre_calls[2].event) /\ pre_calls[2].stored
    /\ DOMAIN pre_calls[3].event = DOMAIN pre_calls[1].event
    /\ pre_calls[3].event # pre_calls[1].event
    /\ pre_calls[3].outcome = Return(None)
    /\ ~pre_calls[3].stored

----------------------------------------------------------------------------
(* Properties of the construction *)

\* C21: with call_count_interval absent, 0 or negative, no invocation goes
\* through the call-count sampler, no per-phase counter changes and no
\* "sqreen_call_counts" observation is recorded.
C21_SamplerOnlyForPositiveInterval ==
    call_count_interval <= 0 =>
        /\ \A f \in Frames : ~Entered(f, COUNT)
        /\ \A l \in Lifecycles : call_counts[l] = 0
        /\ \A o \in BagToSet(observations) : o[1] # "sqreen_call_counts"

\* C22: a phase with no condition entry or an empty tree has no gate: its
\* invocations never evaluate a condition and all run the inner logic,
\* whatever conditions the other phases have; a phase with a non-empty
\* tree has the gate.
C22_GateOnlyForNonEmptyCondition ==
    /\ \A l \in Lifecycles :
          (\E i \in DOMAIN handlers[l] : handlers[l][i] = GATE)
              <=> conditions[l] = "tree"
    /\ \A f \in Frames :
          conditions[f.lifecycle] \in {None, "empty"} =>
              /\ ~Entered(f, GATE)
              /\ f.condition_result = None
              /\ f.pc \in {"return", "done"} =>
                    Entered(f, INNER) /\ f.inner_runs = 1

C22_Witness ==
    \E f \in Frames :
        /\ f.pc = "done" /\ f.lifecycle = "pre"
        /\ conditions["pre"] = "empty" /\ conditions["post"] = "tree"
        /\ f.inner_runs = 1
        /\ ncalls["post"] > 0

----------------------------------------------------------------------------
(* Properties of from_rule_dict and of the reactive callback *)

\* C23: the effective handler of a reactive callback has no condition gate
\* and no call-count sampler, only the debug trace and the performance
\* monitor where they apply, and every invocation of handler raises
\* NotImplementedError.
C23_ReactiveHandlerRaises ==
    built.class = "ReactiveRuleCallback" =>
        /\ \A i \in DOMAIN built.handler :
              built.handler[i] \in {DEBUG, PERF, HANDLER}
        /\ built.handler[Len(built.handler)] = HANDLER
        /\ \A k \in DOMAIN handler_calls :
              /\ handler_calls[k].outcome = Raise("NotImplementedError")
              /\ handler_calls[k].trail = built.handler
              /\ handler_calls[k].open = <<>>

C23_Witness ==
    /\ built.class = "ReactiveRuleCallback"
    /\ rule_dict.conditions = "tree"
    /\ rule_dict.call_count_interval = Num(1)
    /\ built.handler = <<PERF, DEBUG, HANDLER>>
    /\ Len(handler_calls) = MaxHandlerCalls
    /\ handler_calls[1].outcome = Raise("NotImplementedError")

\* from_rule_dict of RuleCallback has been called
BuiltAttached == built # NotBuilt /\ built.class # "ReactiveRuleCallback"

\* C24 as stated: from a rule description that lacks the hookpoint, or its
\* klass, method or strategy, from_rule_dict raises and returns no callback.
C24_MissingHookpointFieldFails ==
    (BuiltAttached
        /\ (~rule_dict.hookpoint.present
            \/ rule_dict.hookpoint.keys # HookpointKeys)) =>
        /\ built.outcome.kind = "raise"
        /\ built.class = None

\* C24: from a rule description that lacks the hookpoint, or its klass or
\* method, from_rule_dict raises and returns no callback; a description
\* with klass and method gives a callback, whose strategy is "import_hook"
\* when the description has none.
C24_MissingKlassOrMethodFails ==
    BuiltAttached =>
        IF rule_dict.hookpoint.present
           /\ {"klass", "method"} \subseteq rule_dict.hookpoint.keys
        THEN /\ built.class = "RuleCallback"
             /\ built.outcome = Return("callback")
             /\ "strategy" \notin rule_dict.hookpoint.keys
                   => built.strategy = "import_hook"
        ELSE /\ built.outcome.kind = "raise"
             /\ built.outcome.value[1] = "KeyError"
             /\ built.class = None

C24_Witness ==
    /\ BuiltAttached
    /\ rule_dict.hookpoint.present
    /\ rule_dict.hookpoint.keys = {"method", "strategy"}
    /\ built = KeyErrorOn("klass")

----------------------------------------------------------------------------
(* Properties of a callback's lifetime *)

\* every layer an invocation went through is the layer the handler
\* composed at construction has at that depth
TrailFollowsHandlers ==
    \A f \in Frames :
        \A i \in DOMAIN f.trail : f.trail[i].layer = handlers[f.lifecycle][i]

\* C25: no phase invocation and no direct call of collaborative,
\* get_remaining_budget or record_exception changes the conditions or the
\* composed handlers; every invocation runs the layers composed at
\* construction; of the callback's attributes only call_counts changes.
C25_HandlersAndConditionsFrozen ==
    /\ [](handlers = ComposeHandlers(conditions, call_count_interval,
                                     debug_enabled, runner))
    /\ []TrailFollowsHandlers
    /\ [][/\ handlers' = handlers
          /\ conditions' = conditions
          /\ call_count_interval' = call_count_interval]_vars

C25_Witness ==
    /\ Called("get_remaining_budget") /\ HasOverride
    /\ ncalls["pre"] = 2
    /\ call_count_interval = 2 /\ call_counts["pre"] = 0
    /\ \E f \in Frames :
          /\ f.pc = "done" /\ f.lifecycle = "pre"
          /\ f.condition_result = "true"
          /\ Len(f.trail) = Len(handlers["pre"])

----------------------------------------------------------------------------
(* Properties of the call counters *)

\* C26: with a sampling interval, by the time an invocation reaches the
\* condition gate or the inner logic, or has returned, skipped or raised,
\* the sampler has advanced the phase's counter (to 0 with the due
\* observation recorded first when the interval was reached).
C26_CounterAdvancesBeforeGate ==
    \A f \in Frames :
        (call_count_interval > 0
            /\ (Entered(f, GATE) \/ Entered(f, INNER)
                \/ f.pc \in {"return", "done"})) =>
            /\ Entered(f, COUNT)
            /\ call_counts[f.lifecycle]
                  = (f.current_count + 1) % call_count_interval
            /\ ReachesInterval(f.current_count, call_count_interval)
                  => f.observed # <<>>
                     /\ f.observed[1] = CallCountEvent(f.lifecycle)

C26_Witness ==
    \E f \in Frames :
        /\ f.pc = "done" /\ f.lifecycle = "post"
        /\ f.condition_result = "false"
        /\ call_count_interval = 2
        /\ ncalls["post"] = 3 /\ call_counts["post"] = 1
        /\ BagCardinality(observations) = 1

\* C27: a step of an invocation changes no counter but the one of the
\* invocation's own phase, and records a "sqreen_call_counts" observation
\* under that phase's key only; a phase never invoked keeps its counter
\* at 0.
C27_CountersIndependent ==
    /\ [](\A l \in Lifecycles : ncalls[l] = 0 => call_counts[l] = 0)
    /\ [][/\ \A l \in Lifecycles :
               call_counts'[l] # call_counts[l] =>
                   \E t \in Threads :
                       InProgress(inv[t]) /\ inv[t].lifecycle = l
          /\ observations' # observations =>
               \E t \in Threads :
                   /\ InProgress(inv[t])
                   /\ observations' = observations
                         (+) SetToBag({CallCountPayload(inv[t].lifecycle)})
         ]_vars

C27_Witness ==
    /\ call_count_interval = 3
    /\ ncalls = [l \in Lifecycles |->
                    CASE l = "pre" -> 1 [] l = "post" -> 2 [] OTHER -> 0]
    /\ call_counts = ncalls
    /\ Quiescent

\* the call of pre a step makes
NewCall == pre_calls'[Len(pre_calls')]

\* C28: the set of reported shapes only grows; a step that handles a
\* supported event leaves it unchanged and stores one request, built from
\* that event; a step that handles an unsupported event adds at most the
\* event's own key set and stores nothing.
C28_ReportedShapesOnlyGrow ==
    [][/\ UNSUPPORTED_LAMBDA_EVENTS \subseteq UNSUPPORTED_LAMBDA_EVENTS'
       /\ pre_calls' # pre_calls =>
            IF Unsupported(NewCall.event)
            THEN /\ UNSUPPORTED_LAMBDA_EVENTS' \subseteq
                      UNSUPPORTED_LAMBDA_EVENTS \cup {DOMAIN NewCall.event}
                 /\ request' = request
                 /\ ~NewCall.stored
            ELSE /\ UNSUPPORTED_LAMBDA_EVENTS' = UNSUPPORTED_LAMBDA_EVENTS
                 /\ NewCall.outcome = Return(None)
                 /\ NewCall.stored
                 /\ request # request'
                 /\ request'.event = NewCall.event
                 /\ request'.klass =
                       IF EventGet(NewCall.event, "version") = "2.0"
                       THEN "AWSLambdaProxyV2Request"
                       ELSE "AWSLambdaProxyV1Request"
      ]_vars

C28_Witness ==
    /\ Len(pre_calls) = 3
    /\ Cardinality(UNSUPPORTED_LAMBDA_EVENTS) = 2
    /\ ~Unsupported(pre_calls[3].event)
    /\ pre_calls[3].stored
    /\ request.klass = "AWSLambdaProxyV1Request"
    /\ "httpMethod" \in DOMAIN request.event
    /\ "version" \notin DOMAIN request.event

----------------------------------------------------------------------------
(* Properties of ExecuteRunner *)

\* the place of a runner call among the calls an invocation made, 0 if
\* the invocation did not make it
PlaceOf(steps, name) ==
    IF \E i \in DOMAIN steps : steps[i] = name
    THEN CHOOSE i \in DOMAIN steps : steps[i] = name
    ELSE 0

\* the runner calls of a flush, in the order stated
StatedFlush ==
    <<"handle_messages", "aggregate_observations", "publish_metrics",
      "deliverer.drain", "do_heartbeat">>

\* steps is the beginning of the stated flush
BeginsFlush(steps) ==
    /\ Len(steps) <= Len(StatedFlush)
    /\ \A i \in DOMAIN steps : steps[i] = StatedFlush[i]

\* C29: an invocation of post or failing makes the five runner calls once
\* each in the stated order; the heartbeat is sent only after the drain
\* returned; an invocation in which a call before the heartbeat raised
\* sent no heartbeat and raised that exception.
C29_FlushInOrderHeartbeatLast ==
    /\ BeginsFlush(exec.steps)
    /\ PlaceOf(exec.steps, "do_heartbeat") = 0
    /\ \A k \in DOMAIN flushes :
          LET f == flushes[k]
          IN /\ BeginsFlush(f.steps)
             /\ f.outcome = Return(None) => f.steps = StatedFlush
             /\ PlaceOf(f.steps, "do_heartbeat") # 0 =>
                   /\ PlaceOf(f.steps, "deliverer.drain") # 0
                   /\ PlaceOf(f.steps, "deliverer.drain")
                         < PlaceOf(f.steps, "do_heartbeat")
             /\ (f.outcome.kind = "raise"
                    /\ f.outcome.value # "do_heartbeat") =>
                   /\ PlaceOf(f.steps, "do_heartbeat") = 0
                   /\ f.steps[Len(f.steps)] = f.outcome.value

C29_Witness ==
    /\ Len(flushes) = 2
    /\ flushes[1] = Flushed("post", StatedFlush, Return(None))
    /\ flushes[2].phase = "failing"
    /\ flushes[2].outcome = Raise("deliverer.drain")
    /\ Len(flushes[2].steps) = 4

----------------------------------------------------------------------------
(* Properties of the SDK events *)

\* the name begins with "sq."
Reserved(name) ==
    Len(name) >= 3 /\ name[1] = "s" /\ name[2] = "q" /\ name[3] = "."

\* the events the calls recorded, in call order
RECURSIVE RecordedBy(_, _)
RecordedBy(calls, n) ==
    IF n = 0 THEN <<>> ELSE RecordedBy(calls, n - 1) \o calls[n].recorded

\* C30: track of a name beginning with "sq." returns False and records
\* nothing; every recorded "sdk" event whose name begins with "sq." was
\* recorded by a track_action call whose action has send_response true;
\* track_action with send_response false returns False and records nothing.
C30_ReservedPrefixOnlyThroughTrackAction ==
    /\ sdk_events = RecordedBy(sdk_calls, Len(sdk_calls))
    /\ \A k \in DOMAIN sdk_calls :
          LET c == sdk_calls[k]
          IN /\ (c.op = "track" /\ c.event.string /\ Reserved(c.event.name))
                   => c.result = Return(FALSE) /\ c.recorded = <<>>
             /\ (c.op = "track_action" /\ ~c.send_response)
                   => c.result = Return(FALSE) /\ c.recorded = <<>>
             /\ \A i \in DOMAIN c.recorded :
                   Reserved(c.recorded[i].event)
                       => c.op = "track_action" /\ c.send_response

C30_Witness ==
    /\ Len(sdk_calls) = 2
    /\ sdk_calls[1].op = "track"
    /\ sdk_calls[1].event.name = <<"s", "q", ".", "action.", "block">>
    /\ sdk_calls[1].result = Return(FALSE)
    /\ sdk_calls[2].op = "track_action" /\ sdk_calls[2].send_response
    /\ Len(sdk_events) = 1
    /\ sdk_events[1].event = <<"s", "q", ".", "action.", "block">>

============================================================================
